---------------------------- MODULE Spec2Model ----------------------------
(***************************************************************************)
(* EmojiSearcher (search-emoji.ts): suffix tries over names, keywords and  *)
(* category/subcategory strings, the exact-name table, and the voting      *)
(* search over them.                                                       *)
(*                                                                         *)
(* Conventions.  A JavaScript string is a sequence of one-character        *)
(* strings.  A JavaScript array is a sequence; the element the code writes *)
(* arr[i] (zero-based) is At(arr, i).  A trie is a function from the path  *)
(* of a node (the characters on the way from the root, <<>> for the root)  *)
(* to that node's output array: node.children[ch] exists iff the path      *)
(* extended by ch is in the domain.  A Record<number, number> is a         *)
(* function whose domain is the set of keys present.                       *)
(***************************************************************************)
EXTENDS Integers, Sequences, FiniteSets, TLC

VARIABLES
    emojiList,          \* this.emojiList: the catalog handed to the constructor
    nameTrieRoot,       \* this.nameTrieRoot
    keywordTrieRoot,    \* this.keywordTrieRoot
    categoryTrieRoot,   \* this.categoryTrieRoot
    nameMap,            \* this.nameMap: as-authored name -> record id
    call,               \* the last public method called ("none" before any)
    input,              \* its argument (the query), <<>> for getAll
    resultVotes,        \* search's local resultVotes when it returned
    result,             \* the array the call returned
    cachedJson,         \* the constructor's second argument (None if not given)
    thrown,             \* the error the last call threw ("none" if it returned)
    first,              \* the first search call made on the searcher (None before)
    lastArgs,           \* throttledSearch: the input of the invocation pending
    filteredEmoji,      \* EmojiSelector's state filteredEmoji
    emojiListData,      \* useEmojiSearcher: usePromise's data of the catalog (None until read)
    emojiTrieCache,     \* useEmojiSearcher: usePromise's data of the snapshot (None until read)
    searchText,         \* the search bar: the value last handed to onChange
    timerId,            \* throttledSearch: ms until its timer expires (undefined if none runs)
    sinceInvoke,        \* ms since throttledSearch's callback last ran, up to Wait
    processed,          \* the input the callback last ran on (None before)
    shownFor            \* the input of the callback's last update(..) (None before)

\* the fields of the searcher, and the argument it was constructed from
searcherVars ==
    <<emojiList, nameTrieRoot, keywordTrieRoot, categoryTrieRoot, nameMap, cachedJson>>

\* the last call on the searcher
callVars == <<call, input, resultVotes, result, thrown, first>>

\* the component EmojiSelector
uiVars ==
    <<lastArgs, filteredEmoji, emojiListData, emojiTrieCache, searchText, timerId,
      sinceInvoke, processed, shownFor>>

vars == <<searcherVars, callVars, uiVars>>

-----------------------------------------------------------------------------
(* Bounds of the model *)

\* most records in an enumerated catalog
MaxEmojis == 2
\* longest query of the enumerated queries (in characters)
MaxQueryLen == 2
\* most calls counted after the first search on a searcher
MaxLater == 2

-----------------------------------------------------------------------------
(* JavaScript values *)

\* undefined (a missing weight, a missing nameMap entry): no number the code
\* produces is negative
undefined == 0 - 1
\* null (an emoji without image variant)
null == <<>>
\* what Array.prototype.indexOf / findIndex return when nothing is found
NotFound == 0 - 1

\* A value that may be missing (an optional argument, a T | null state) is a
\* set of at most one element.
None == {}

Some(x) == {x}

The(opt) == CHOOSE x \in opt : TRUE

At(arr, i) == arr[i + 1]

Includes(arr, x) == \E k \in 1..Len(arr) : arr[k] = x

\* Array.prototype.indexOf: the first zero-based position of x, or -1
IndexOf(arr, x) ==
    IF Includes(arr, x)
    THEN (CHOOSE k \in 1..Len(arr) :
              arr[k] = x /\ \A j \in 1..(k - 1) : arr[j] # x) - 1
    ELSE NotFound

\* String.prototype.toLowerCase, one character
LowerChar(ch) ==
    CASE ch = "A" -> "a"
      [] ch = "B" -> "b"
      [] OTHER -> ch

ToLowerCase(s) == [k \in 1..Len(s) |-> LowerChar(s[k])]

IsWhiteSpace(ch) == ch = " "

RECURSIVE TrimStart(_)
TrimStart(s) ==
    IF s # <<>> /\ IsWhiteSpace(Head(s)) THEN TrimStart(Tail(s)) ELSE s

RECURSIVE TrimEnd(_)
TrimEnd(s) ==
    IF s # <<>> /\ IsWhiteSpace(s[Len(s)])
    THEN TrimEnd(SubSeq(s, 1, Len(s) - 1))
    ELSE s

\* String.prototype.trim
Trim(s) == TrimEnd(TrimStart(s))

-----------------------------------------------------------------------------
(* The catalog (ReducedEmojiList) *)

Emojis(list) == list.emojis

NumEmojis(list) == Len(list.emojis)

EmojiIds(list) == 0..(NumEmojis(list) - 1)

\* emoji[1]
NameOf(list, i) == At(list.emojis, i).name

\* keywords[keywordIdx] for keywordIdx of emoji[4], in that order
KeywordsOf(list, i) ==
    LET ks == At(list.emojis, i).keywords
    IN  [k \in 1..Len(ks) |-> At(list.keywords, ks[k])]

\* category[emoji[2]]
CategoryOf(list, i) == At(list.category, At(list.emojis, i).category)

\* subCategory[emoji[2]][emoji[3]]
SubcategoryOf(list, i) ==
    LET e == At(list.emojis, i)
    IN  At(At(list.subCategory, e.category), e.subCategory)

-----------------------------------------------------------------------------
(* Suffix tries *)

\* { children: {}, output: [] }
EmptyTrie == (<<>> :> <<>>)

\* Faulty variant of VisitNode: the output keeps only the id pushed last.
VisitNodeKeepLast(trie, path, emojiIdx) ==
    LET made == IF path \in DOMAIN trie THEN trie ELSE trie @@ (path :> <<>>)
    IN  [made EXCEPT ![path] = <<emojiIdx>>]

\* Faulty variant of VisitNode: emojiIdx is pushed without looking whether the
\* output has it.
VisitNodeNoDedup(trie, path, emojiIdx) ==
    LET made == IF path \in DOMAIN trie THEN trie ELSE trie @@ (path :> <<>>)
    IN  [made EXCEPT ![path] = Append(@, emojiIdx)]

\* One step of insertIntoTrie's inner loop: create the child at `path` when
\* it is missing, move to it, and push emojiIdx unless the output has it.
VisitNode(trie, path, emojiIdx) ==
    LET made == IF path \in DOMAIN trie THEN trie ELSE trie @@ (path :> <<>>)
    IN  IF Includes(made[path], emojiIdx)
        THEN made
        ELSE [made EXCEPT ![path] = Append(@, emojiIdx)]

\* insertIntoTrie's inner loop, from pos on (one-based here).  node is the
\* path of the loop's current node, which is always a node of the trie (the
\* code's node.children[ch]!).
RECURSIVE InsertSuffix(_, _, _, _, _)
InsertSuffix(trie, text, node, pos, emojiIdx) ==
    IF pos > Len(text) \/ node \notin DOMAIN trie
    THEN trie
    ELSE InsertSuffix(VisitNode(trie, Append(node, text[pos]), emojiIdx),
                      text, Append(node, text[pos]), pos + 1, emojiIdx)

\* insertIntoTrie's outer loop, from start on: let node = root, then the
\* inner loop from pos = start
RECURSIVE InsertFrom(_, _, _, _)
InsertFrom(trie, text, start, emojiIdx) ==
    IF start > Len(text)
    THEN trie
    ELSE InsertFrom(InsertSuffix(trie, text, <<>>, start, emojiIdx),
                    text, start + 1, emojiIdx)

\* Faulty variant of InsertIntoTrie: only the whole text is inserted (a prefix
\* trie), not every suffix.
InsertIntoTriePrefixOnly(root, text, emojiIdx) ==
    InsertSuffix(root, text, <<>>, 1, emojiIdx)

InsertIntoTrie(root, text, emojiIdx) == InsertFrom(root, text, 1, emojiIdx)

\* searchTrie's loop: follow input from the node at `path`; a missing child
\* makes node undefined, which ends the loop with [].
RECURSIVE WalkTrie(_, _, _, _)
WalkTrie(root, text, path, k) ==
    IF path \notin DOMAIN root
    THEN <<>>
    ELSE IF k > Len(text)
         THEN root[path]
         ELSE WalkTrie(root, text, Append(path, text[k]), k + 1)

SearchTrie(root, text) == WalkTrie(root, text, <<>>, 1)

-----------------------------------------------------------------------------
(* buildTries *)

\* {} : a Record with no key
EmptyMap == [k \in {} |-> 0]

\* Faulty variant of SetName: the first record of a name keeps the entry.
SetNameKeepFirst(map, name, i) ==
    IF name \in DOMAIN map THEN map ELSE map @@ (name :> i)

\* this.nameMap[name] = i
SetName(map, name, i) ==
    IF name \in DOMAIN map THEN [map EXCEPT ![name] = i] ELSE map @@ (name :> i)

\* the loop over emoji[4]
RECURSIVE InsertKeywords(_, _, _, _)
InsertKeywords(trie, kws, k, i) ==
    IF k > Len(kws)
    THEN trie
    ELSE InsertKeywords(InsertIntoTrie(trie, ToLowerCase(kws[k]), i), kws, k + 1, i)

\* Faulty variant of BuildOne: the exact-name table is keyed by the lowercased
\* name.
BuildOneLowerCaseNames(list, s, i) ==
    [nameMap |-> SetName(s.nameMap, ToLowerCase(NameOf(list, i)), i),
     nameTrieRoot |->
         InsertIntoTrie(s.nameTrieRoot, ToLowerCase(NameOf(list, i)), i),
     keywordTrieRoot |->
         InsertKeywords(s.keywordTrieRoot, KeywordsOf(list, i), 1, i),
     categoryTrieRoot |->
         InsertIntoTrie(
             InsertIntoTrie(s.categoryTrieRoot, ToLowerCase(CategoryOf(list, i)), i),
             ToLowerCase(SubcategoryOf(list, i)), i)]

\* the body of buildTries' loop for record i, on the four structures
BuildOne(list, s, i) ==
    [nameMap |-> SetName(s.nameMap, NameOf(list, i), i),
     nameTrieRoot |->
         InsertIntoTrie(s.nameTrieRoot, ToLowerCase(NameOf(list, i)), i),
     keywordTrieRoot |->
         InsertKeywords(s.keywordTrieRoot, KeywordsOf(list, i), 1, i),
     categoryTrieRoot |->
         InsertIntoTrie(
             InsertIntoTrie(s.categoryTrieRoot, ToLowerCase(CategoryOf(list, i)), i),
             ToLowerCase(SubcategoryOf(list, i)), i)]

\* buildTries' loop from record i on; the three roots are there throughout
RECURSIVE BuildFrom(_, _, _)
BuildFrom(list, s, i) ==
    IF i >= NumEmojis(list) \/ <<>> \notin DOMAIN s.nameTrieRoot
    THEN s
    ELSE BuildFrom(list, BuildOne(list, s, i), i + 1)

\* the constructor without cachedJson: empty roots, empty nameMap, buildTries()
BuildTries(list) ==
    BuildFrom(list,
              [nameMap |-> EmptyMap, nameTrieRoot |-> EmptyTrie,
               keywordTrieRoot |-> EmptyTrie, categoryTrieRoot |-> EmptyTrie],
              0)

\* buildTries of the earlier build (emoji-selector.js): three loops over the
\* records, the first for the exact-name table and the name trie,
RECURSIVE BuildNamesFrom(_, _, _)
BuildNamesFrom(list, s, i) ==
    IF i >= NumEmojis(list) \/ <<>> \notin DOMAIN s.nameTrieRoot
    THEN s
    ELSE BuildNamesFrom(
             list,
             [s EXCEPT !.nameMap = SetName(@, NameOf(list, i), i),
                       !.nameTrieRoot =
                           InsertIntoTrie(@, ToLowerCase(NameOf(list, i)), i)],
             i + 1)

\* the second for the keyword trie,
RECURSIVE BuildKeywordsFrom(_, _, _)
BuildKeywordsFrom(list, s, i) ==
    IF i >= NumEmojis(list) \/ <<>> \notin DOMAIN s.keywordTrieRoot
    THEN s
    ELSE BuildKeywordsFrom(
             list,
             [s EXCEPT !.keywordTrieRoot =
                           InsertKeywords(@, KeywordsOf(list, i), 1, i)],
             i + 1)

\* the third for the category trie
RECURSIVE BuildCategoriesFrom(_, _, _)
BuildCategoriesFrom(list, s, i) ==
    IF i >= NumEmojis(list) \/ <<>> \notin DOMAIN s.categoryTrieRoot
    THEN s
    ELSE BuildCategoriesFrom(
             list,
             [s EXCEPT !.categoryTrieRoot =
                           InsertIntoTrie(
                               InsertIntoTrie(@, ToLowerCase(CategoryOf(list, i)), i),
                               ToLowerCase(SubcategoryOf(list, i)), i)],
             i + 1)

BuildTriesThreePass(list) ==
    BuildCategoriesFrom(
        list,
        BuildKeywordsFrom(
            list,
            BuildNamesFrom(list,
                           [nameMap |-> EmptyMap, nameTrieRoot |-> EmptyTrie,
                            keywordTrieRoot |-> EmptyTrie,
                            categoryTrieRoot |-> EmptyTrie],
                           0),
            0),
        0)

\* toJSON(): the three roots and the exact-name table
ToJSON(idx) ==
    [nameTrieRoot |-> idx.nameTrieRoot, keywordTrieRoot |-> idx.keywordTrieRoot,
     categoryTrieRoot |-> idx.categoryTrieRoot, nameMap |-> idx.nameMap]

\* Faulty variant of Construct: the snapshot's exact-name table is not taken
\* over, nameMap stays the {} of its field initializer.
ConstructWithoutNameMap(list, cached) ==
    IF cached # None
    THEN [nameMap |-> EmptyMap, nameTrieRoot |-> The(cached).nameTrieRoot,
          keywordTrieRoot |-> The(cached).keywordTrieRoot,
          categoryTrieRoot |-> The(cached).categoryTrieRoot]
    ELSE BuildTries(list)

\* new EmojiSearcher(emojiList, cachedJson): the four structures are taken
\* from cachedJson when it is given and built from the catalog when not
Construct(list, cached) ==
    IF cached # None
    THEN [nameMap |-> The(cached).nameMap,
          nameTrieRoot |-> The(cached).nameTrieRoot,
          keywordTrieRoot |-> The(cached).keywordTrieRoot,
          categoryTrieRoot |-> The(cached).categoryTrieRoot]
    ELSE BuildTries(list)

-----------------------------------------------------------------------------
(* intoHumanReadable *)

\* Faulty variant of FromEmojiImageArr: the flags apple and google are read
\* from each other's entry.
FromEmojiImageArrSwapped(arr) ==
    IF arr = null
    THEN null
    ELSE [image |-> arr[5], apple |-> arr[2] = 1, google |-> arr[1] = 1,
          twitter |-> arr[3] = 1, facebook |-> arr[4] = 1]

\* fromEmojiImageArr
FromEmojiImageArr(arr) ==
    IF arr = null
    THEN null
    ELSE [image |-> arr[5], apple |-> arr[1] = 1, google |-> arr[2] = 1,
          twitter |-> arr[3] = 1, facebook |-> arr[4] = 1]

\* intoHumanReadable(emojiIdx, weight?).  The field idx is not in the code's
\* object: it records which record the entry was made from, so that
\* statements about record ids can be read off a result.
IntoHumanReadable(list, emojiIdx, weight) ==
    [idx |-> emojiIdx,
     emoji |-> At(list.emojis, emojiIdx).emoji,
     name |-> NameOf(list, emojiIdx),
     category |-> CategoryOf(list, emojiIdx),
     subcategory |-> SubcategoryOf(list, emojiIdx),
     keywords |-> KeywordsOf(list, emojiIdx),
     image |-> FromEmojiImageArr(At(list.emojis, emojiIdx).image),
     weight |-> weight]

\* this.emojiList.emojis.map((_, i) => this.intoHumanReadable(i))
GetAllResult(list) ==
    [k \in 1..NumEmojis(list) |-> IntoHumanReadable(list, k - 1, undefined)]

-----------------------------------------------------------------------------
(* getCommon *)

\* commonEmojis: the curated glyphs, written by their code points
CommonEmojis ==
    <<"U+1F602", "U+2764 U+FE0F", "U+1F923", "U+1F44D", "U+1F62D", "U+1F64F",
      "U+1F618", "U+1F970", "U+1F60D", "U+1F60A", "U+1F389", "U+1F601",
      "U+1F495", "U+1F97A", "U+1F605", "U+1F525", "U+2728", "U+1F496",
      "U+1F440", "U+1F60B", "U+1F642", "U+1F633", "U+1F973", "U+1F60E">>

\* emojis.findIndex(([emoji]) => emoji === e): the first zero-based position
\* of a record with glyph e, or -1
FindIndex(emojis, e) ==
    IF \E k \in 1..Len(emojis) : emojis[k].emoji = e
    THEN (CHOOSE k \in 1..Len(emojis) :
              emojis[k].emoji = e /\ \A j \in 1..(k - 1) : emojis[j].emoji # e) - 1
    ELSE NotFound

\* commonEmojis.map(...).filter(Boolean) for the curated glyphs from the k-th
\* on: a glyph not in the catalog maps to null, which the filter drops
RECURSIVE CommonFrom(_, _)
CommonFrom(list, k) ==
    IF k > Len(CommonEmojis)
    THEN <<>>
    ELSE (IF FindIndex(list.emojis, CommonEmojis[k]) = NotFound
          THEN <<>>
          ELSE <<IntoHumanReadable(list, FindIndex(list.emojis, CommonEmojis[k]),
                                   undefined)>>)
         \o CommonFrom(list, k + 1)

\* Faulty variant of GetCommonResult: the catalog is walked instead of the
\* curated list, keeping the records whose glyph is curated.
RECURSIVE CommonInCatalogOrderFrom(_, _)
CommonInCatalogOrderFrom(list, i) ==
    IF i >= NumEmojis(list)
    THEN <<>>
    ELSE (IF Includes(CommonEmojis, At(list.emojis, i).emoji)
          THEN <<IntoHumanReadable(list, i, undefined)>>
          ELSE <<>>)
         \o CommonInCatalogOrderFrom(list, i + 1)

GetCommonInCatalogOrder(list) == CommonInCatalogOrderFrom(list, 0)

\* the value getCommon() returns
GetCommonResult(list) == CommonFrom(list, 1)

-----------------------------------------------------------------------------
(* search *)

WeightExactName == 5
WeightExactKeyword == 4
WeightPartialName == 3
WeightPartialKeyword == 2
WeightPartialCategory == 1
\* results are kept when weight > MinWeight
MinWeight == 3

\* Faulty variant of AddVote: the vote replaces what was accumulated.
AddVoteOverwrite(votes, idx, weight) ==
    IF idx \in DOMAIN votes
    THEN [votes EXCEPT ![idx] = weight]
    ELSE votes @@ (idx :> weight)

\* addVote: resultVotes[idx] = (resultVotes[idx] || 0) + weight
AddVote(votes, idx, weight) ==
    IF idx \in DOMAIN votes
    THEN [votes EXCEPT ![idx] = @ + weight]
    ELSE votes @@ (idx :> weight)

\* for (const idx of matches) addVote(idx, weight), from the k-th match on
\* (the match before it has its vote)
RECURSIVE AddVotes(_, _, _, _)
AddVotes(votes, matches, k, weight) ==
    IF k > Len(matches) \/ (k > 1 /\ matches[k - 1] \notin DOMAIN votes)
    THEN votes
    ELSE AddVotes(AddVote(votes, matches[k], weight), matches, k + 1, weight)

\* Faulty variant of LookupName: the name is looked up ignoring case.
LookupNameIgnoreCase(map, text) ==
    IF \E key \in DOMAIN map : ToLowerCase(key) = ToLowerCase(text)
    THEN map[CHOOSE key \in DOMAIN map : ToLowerCase(key) = ToLowerCase(text)]
    ELSE undefined

\* a property name every plain object inherits from Object.prototype
Constructor == <<"c", "o", "n", "s", "t", "r", "u", "c", "t", "o", "r">>

InheritedKeys == {Constructor}

\* The value of an inherited property (a function) where a record id is
\* expected.  As a key of resultVotes it is not an integer key: it is listed
\* after the integer keys, and parseInt of it is NaN.
NotAnIndex == 0 - 2

\* 1. const exactIdx = this.nameMap[input]: nameMap is a plain object ({}), so
\* the read finds an own key, or else a key inherited from Object.prototype
LookupName(map, text) ==
    IF text \in DOMAIN map
    THEN map[text]
    ELSE IF text \in InheritedKeys THEN NotAnIndex ELSE undefined

\* if (exactIdx !== undefined) addVote(exactIdx, 5)

VoteExactName(votes, map, text) ==
    LET exactIdx == LookupName(map, text)
    IN  IF exactIdx # undefined THEN AddVote(votes, exactIdx, WeightExactName) ELSE votes

\* 2. the loop over the emojis for i = i..emojis.length-1
RECURSIVE VoteKeywordFrom(_, _, _, _)
VoteKeywordFrom(votes, list, exactKeywordIdx, i) ==
    IF i >= NumEmojis(list)
    THEN votes
    ELSE VoteKeywordFrom(
             IF Includes(At(list.emojis, i).keywords, exactKeywordIdx)
             THEN AddVote(votes, i, WeightExactKeyword)
             ELSE votes,
             list, exactKeywordIdx, i + 1)

\* Faulty variant of VoteExactKeyword: the loop stops at the first record
\* that references the keyword.
VoteExactKeywordFirstOnly(votes, list, text) ==
    LET exactKeywordIdx == IndexOf(list.keywords, text)
        hits == {i \in EmojiIds(list) :
                    Includes(At(list.emojis, i).keywords, exactKeywordIdx)}
    IN  IF exactKeywordIdx # NotFound /\ hits # {}
        THEN AddVote(votes, CHOOSE i \in hits : \A j \in hits : i <= j,
                     WeightExactKeyword)
        ELSE votes

\* const exactKeywordIdx = keywords.indexOf(input); if (exactKeywordIdx !== -1) ...
VoteExactKeyword(votes, list, text) ==
    LET exactKeywordIdx == IndexOf(list.keywords, text)
    IN  IF exactKeywordIdx # NotFound
        THEN VoteKeywordFrom(votes, list, exactKeywordIdx, 0)
        ELSE votes

\* Faulty variant of LowerInput: the query is not trimmed.
LowerInputNoTrim(text) == ToLowerCase(text)

\* const lowerInput = input.trim().toLowerCase()
LowerInput(text) == ToLowerCase(Trim(text))

\* Faulty variant of Votes: resultVotes is not a fresh {} of the call, the
\* votes of the call before are still in it.
VotesKeptAcrossCalls(list, idx, text) ==
    LET v1 == VoteExactName(resultVotes, idx.nameMap, text)
        v2 == VoteExactKeyword(v1, list, text)
        v3 == AddVotes(v2, SearchTrie(idx.nameTrieRoot, LowerInput(text)), 1,
                       WeightPartialName)
        v4 == AddVotes(v3, SearchTrie(idx.keywordTrieRoot, LowerInput(text)), 1,
                       WeightPartialKeyword)
    IN  AddVotes(v4, SearchTrie(idx.categoryTrieRoot, LowerInput(text)), 1,
                 WeightPartialCategory)

\* resultVotes after the five voting steps
Votes(list, idx, text) ==
    LET v1 == VoteExactName(EmptyMap, idx.nameMap, text)
        v2 == VoteExactKeyword(v1, list, text)
        v3 == AddVotes(v2, SearchTrie(idx.nameTrieRoot, LowerInput(text)), 1,
                       WeightPartialName)
        v4 == AddVotes(v3, SearchTrie(idx.keywordTrieRoot, LowerInput(text)), 1,
                       WeightPartialKeyword)
    IN  AddVotes(v4, SearchTrie(idx.categoryTrieRoot, LowerInput(text)), 1,
                 WeightPartialCategory)

\* Faulty variant of PassesFilter: weight >= 3.
PassesFilterAtLeast(weight) == weight >= MinWeight

\* .filter(([, weight]) => weight > 3)
PassesFilter(weight) == weight > MinWeight

\* the entries in descending order of the keys
RECURSIVE EntriesFromDescending(_, _, _)
EntriesFromDescending(list, votes, i) ==
    IF i >= NumEmojis(list)
    THEN <<>>
    ELSE EntriesFromDescending(list, votes, i + 1)
         \o (IF i \in DOMAIN votes /\ votes[i] > MinWeight
             THEN <<IntoHumanReadable(list, i, votes[i])>>
             ELSE <<>>)

\* Object.entries(resultVotes).filter(...).map(...) for the keys >= i:
\* Object.entries lists integer keys in ascending order.
RECURSIVE EntriesFrom(_, _, _)
EntriesFrom(list, votes, i) ==
    IF i >= NumEmojis(list)
    THEN <<>>
    ELSE (IF i \in DOMAIN votes /\ PassesFilter(votes[i])
          THEN <<IntoHumanReadable(list, i, votes[i])>>
          ELSE <<>>) \o EntriesFrom(list, votes, i + 1)

\* intoHumanReadable(emojiIdx) throws a TypeError when emojis[emojiIdx] is
\* undefined (const emoji = emojis[emojiIdx]!; emoji[0])
IntoHumanReadableThrows(list, emojiIdx) == emojiIdx \notin EmojiIds(list)

\* the keys of resultVotes that pass the filter and are materialized
Materialized(votes) == {id \in DOMAIN votes : PassesFilter(votes[id])}


\* the value search(input) returns (when it returns)
SearchResult(list, idx, text) ==
    IF LowerInput(text) = <<>>
    THEN GetAllResult(list)
    ELSE EntriesFrom(list, Votes(list, idx, text), 0)

\* resultVotes when search(input) ends
SearchVotes(list, idx, text) ==
    IF LowerInput(text) = <<>> THEN EmptyMap ELSE Votes(list, idx, text)

\* How search(input) ends: with resultVotes as voted, it returns the array of
\* the materialized entries, or it throws the TypeError of intoHumanReadable
\* on a key that is no record id.
SearchOutcome(list, idx, text) ==
    LET votes == SearchVotes(list, idx, text)
        throws == \E id \in Materialized(votes) : IntoHumanReadableThrows(list, id)
    IN  [votes |-> votes,
         thrown |-> IF throws THEN "TypeError" ELSE "none",
         result |-> IF throws
                    THEN <<>>
                    ELSE IF LowerInput(text) = <<>>
                         THEN GetAllResult(list)
                         ELSE EntriesFrom(list, votes, 0)]

-----------------------------------------------------------------------------
(* The catalogs and the queries the model runs on *)

\* the characters of the enumerated queries
QueryAlphabet == {"a", "A", "b", " "}

\* names of the enumerated records
NameStrs == {<<"a">>, <<"A", "b">>}

\* keyword tables: one holding the same string under two ids, one whose
\* strings differ from each other and, in case, from the names
KeywordTables == {<< <<"b">>, <<"b">> >>, << <<"A">>, <<"A", "b">> >>}

\* keyword lists of the enumerated records (ids into a keyword table)
KeywordLists == {<<>>, <<0>>, <<1>>, <<0, 1>>}

CategoryTable == << <<"a">>, <<"b">> >>

SubCategoryTable == << << <<"A">> >>, << <<"A", "b">> >> >>

\* display glyphs, by position in the catalog
Glyphs == <<"U+1F602", "U+2764", "U+1F923", "U+1F44D", "U+1F62D", "U+1F64F">>

EmojiShapes == [name : NameStrs, category : {0, 1}, keywords : KeywordLists]

MakeEmojis(shapes) ==
    [k \in 1..Len(shapes) |->
        [emoji |-> Glyphs[k], name |-> shapes[k].name,
         category |-> shapes[k].category, subCategory |-> 0,
         keywords |-> shapes[k].keywords, image |-> null]]

EnumeratedCatalogs ==
    {[category |-> CategoryTable, subCategory |-> SubCategoryTable,
      keywords |-> kt, emojis |-> MakeEmojis(shapes)] :
        kt \in KeywordTables,
        shapes \in UNION {[1..n -> EmojiShapes] : n \in 1..MaxEmojis}}

PartyPopper == <<"p", "a", "r", "t", "y", " ", "p", "o", "p", "p", "e", "r">>

Celebration == <<"c", "e", "l", "e", "b", "r", "a", "t", "i", "o", "n">>

Part == <<"p", "a", "r", "t">>

\* the one-record catalog ("U+1F389", "party popper", keyword "celebration")
PartyCatalog ==
    [category |-> << <<"A", "c", "t", "i", "v", "i", "t", "i", "e", "s">> >>,
     subCategory |-> << << <<"e", "v", "e", "n", "t">> >> >>,
     keywords |-> <<Celebration>>,
     emojis |-> << [emoji |-> "U+1F389", name |-> PartyPopper, category |-> 0,
                    subCategory |-> 0, keywords |-> <<0>>, image |-> null] >>]

\* a catalog whose names and keywords begin or end with white space: record
\* 0 is named " a" and has the keyword "b", record 1 is named "a" and has
\* the keyword "a "
SpacedCatalog ==
    [category |-> CategoryTable, subCategory |-> SubCategoryTable,
     keywords |-> << <<"a", " ">>, <<"b">> >>,
     emojis |-> << [emoji |-> "U+1F602", name |-> <<" ", "a">>, category |-> 0,
                    subCategory |-> 0, keywords |-> <<1>>, image |-> null],
                   [emoji |-> "U+1F923", name |-> <<"a">>, category |-> 0,
                    subCategory |-> 0, keywords |-> <<0>>, image |-> null] >>]

Catalogs == EnumeratedCatalogs \cup {PartyCatalog, SpacedCatalog}

\* Catalogs of two records that differ in what a result entry shows: the
\* glyphs (curated or not, in and against the curated order, repeated) and
\* the image variants.  Record 0 lists its keywords against the order of
\* the keyword table; record 1 is in the second subcategory of its category.
GlyphPool == {"U+1F602", "U+1F923", "U+2764"}

ImagePool == {null, <<1, 0, 1, 0, "a.png">>, <<0, 1, 0, 1, "b.png">>}

VariedCatalog(glyph0, image0, glyph1, image1) ==
    [category |-> << <<"a">>, <<"b">> >>,
     subCategory |-> << << <<"A">> >>, << <<"a">>, <<"A", "b">> >> >>,
     keywords |-> << <<"A">>, <<"b">> >>,
     emojis |-> << [emoji |-> glyph0, name |-> <<"a">>, category |-> 0,
                    subCategory |-> 0, keywords |-> <<1, 0>>, image |-> image0],
                   [emoji |-> glyph1, name |-> <<"A", "b">>, category |-> 1,
                    subCategory |-> 1, keywords |-> <<>>, image |-> image1] >>]

VariedCatalogs ==
    {VariedCatalog(g0, i0, g1, i1) : g0 \in GlyphPool, i0 \in ImagePool,
                                     g1 \in GlyphPool, i1 \in ImagePool}

\* the queries of the calls on them
VariedQueries ==
    {<<>>, <<" ">>, <<"a">>, <<"A">>, <<"b">>, <<"a", "b">>, <<"A", "b">>,
     <<"a", " ">>, Constructor}

RECURSIVE StrsOfLen(_)
StrsOfLen(n) ==
    IF n = 0
    THEN {<<>>}
    ELSE {Append(s, ch) : s \in StrsOfLen(n - 1), ch \in QueryAlphabet}

EnumeratedQueries == UNION {StrsOfLen(n) : n \in 0..MaxQueryLen}

Queries(list) ==
    IF list = PartyCatalog
    THEN EnumeratedQueries \cup {PartyPopper, Celebration, Part, Constructor}
    ELSE EnumeratedQueries

-----------------------------------------------------------------------------
(* The searcher as a state machine *)

Index ==
    [nameMap |-> nameMap, nameTrieRoot |-> nameTrieRoot,
     keywordTrieRoot |-> keywordTrieRoot, categoryTrieRoot |-> categoryTrieRoot]

\* throttle's wait, in ms
Wait == 25

\* the clock of the model advances Wait \div TicksPerWindow ms at a time
TicksPerWindow == 5

\* the component as mounted, with what its two promises have given so far:
\* nothing typed, nothing scheduled, nothing filtered
Mounted(listData, cacheData) ==
    /\ emojiListData = listData
    /\ emojiTrieCache = cacheData
    /\ filteredEmoji = None
    /\ lastArgs = None
    /\ searchText = <<>>
    /\ timerId = undefined
    /\ sinceInvoke = Wait
    /\ processed = None
    /\ shownFor = None

\* the state after new EmojiSearcher(list, cached): no call made yet
SearcherBuilt(list, cached) ==
    /\ emojiList = list
    /\ cachedJson = cached
    /\ nameMap = Construct(list, cached).nameMap
    /\ nameTrieRoot = Construct(list, cached).nameTrieRoot
    /\ keywordTrieRoot = Construct(list, cached).keywordTrieRoot
    /\ categoryTrieRoot = Construct(list, cached).categoryTrieRoot
    /\ call = "none"
    /\ input = <<>>
    /\ resultVotes = EmptyMap
    /\ result = <<>>
    /\ thrown = "none"
    /\ first = None

\* a searcher constructed outside the component, which has no data
Constructed(list, cached) ==
    /\ SearcherBuilt(list, cached)
    /\ Mounted(None, None)

\* new EmojiSearcher(emojiList), no call made yet
Init == \E list \in Catalogs : Constructed(list, None)

\* the snapshot toJSON() gives on a searcher freshly built from the catalog
Snapshot(list) == ToJSON(Construct(list, None))

\* new EmojiSearcher(emojiList, cachedJson) with that snapshot, no call made yet
InitRestored == \E list \in Catalogs : Constructed(list, Some(Snapshot(list)))

\* first, after one more call: it counts the calls made after the first
\* search, up to MaxLater
Later(f) ==
    IF f = None
    THEN None
    ELSE Some([The(f) EXCEPT !.later = IF @ < MaxLater THEN @ + 1 ELSE @])

\* searcher.search(q): it returns an array, or ends in the TypeError of
\* intoHumanReadable
Search(q) ==
    /\ call' = "search"
    /\ input' = q
    /\ LET outcome == SearchOutcome(emojiList, Index, q)
       IN  /\ resultVotes' = outcome.votes
           /\ result' = outcome.result
           /\ thrown' = outcome.thrown
    /\ first' = IF first = None
                THEN Some([input |-> q, result |-> result', thrown |-> thrown',
                           later |-> 0])
                ELSE Later(first)
    /\ UNCHANGED <<searcherVars, uiVars>>

\* searcher.getAll()
GetAll ==
    /\ call' = "getAll"
    /\ input' = <<>>
    /\ resultVotes' = EmptyMap
    /\ result' = GetAllResult(emojiList)
    /\ thrown' = "none"
    /\ first' = Later(first)
    /\ UNCHANGED <<searcherVars, uiVars>>

\* Spec follows a freshly constructed searcher through its first call: what a
\* call returns is a function of the catalog, the index and the query, and
\* no call assigns a field of the searcher.
\* searcher.getCommon()
GetCommon ==
    /\ call' = "getCommon"
    /\ input' = <<>>
    /\ resultVotes' = EmptyMap
    /\ result' = GetCommonResult(emojiList)
    /\ thrown' = "none"
    /\ first' = Later(first)
    /\ UNCHANGED <<searcherVars, uiVars>>

\* searcher.intoHumanReadable(emojiIdx, weight) on a valid record id: the
\* object it returns is kept as a one-element array, input holds the two
\* arguments
IntoHumanReadableOf(emojiIdx, weight) ==
    /\ ~IntoHumanReadableThrows(emojiList, emojiIdx)
    /\ call' = "intoHumanReadable"
    /\ input' = <<emojiIdx, weight>>
    /\ resultVotes' = EmptyMap
    /\ result' = <<IntoHumanReadable(emojiList, emojiIdx, weight)>>
    /\ thrown' = "none"
    /\ first' = Later(first)
    /\ UNCHANGED <<searcherVars, uiVars>>

\* searcher.toJSON(): the snapshot it returns is kept as a one-element array
CallToJSON ==
    /\ call' = "toJSON"
    /\ input' = <<>>
    /\ resultVotes' = EmptyMap
    /\ result' = <<ToJSON(Index)>>
    /\ thrown' = "none"
    /\ first' = Later(first)
    /\ UNCHANGED <<searcherVars, uiVars>>

FirstSearch == call = "none" /\ \E q \in Queries(emojiList) : Search(q)

FirstGetAll == call = "none" /\ GetAll

Next ==
    \/ FirstSearch
    \/ FirstGetAll

Spec == Init /\ [][Next]_vars

\* the same first call on a searcher restored from a snapshot
SpecRestored == InitRestored /\ [][Next]_vars

\* SpecCalls follows a searcher, freshly built from one of the varied
\* catalogs, through any sequence of calls of its public methods.
InitCalls == \E list \in VariedCatalogs : Constructed(list, None)

AnySearch == \E q \in VariedQueries : Search(q)

AnyIntoHumanReadable ==
    \E emojiIdx \in EmojiIds(emojiList) : \E weight \in {undefined, WeightExactName} :
        IntoHumanReadableOf(emojiIdx, weight)

NextCall ==
    \/ AnySearch
    \/ GetAll
    \/ GetCommon
    \/ AnyIntoHumanReadable
    \/ CallToJSON

SpecCalls == InitCalls /\ [][NextCall]_vars

-----------------------------------------------------------------------------
(* The component EmojiSelector: throttledSearch *)

\* a JavaScript number is truthy unless it is 0 (or NaN); undefined is not
Truthy(weight) == weight # undefined /\ weight # 0

\* The glyphs of the model in ascending order of their UTF-16 code units,
\* which is what a.emoji.localeCompare(b.emoji) is taken to follow.
GlyphsAscending ==
    <<"U+2764", "U+2764 U+FE0F", "U+1F389", "U+1F44D", "U+1F602", "U+1F62D",
      "U+1F64F", "U+1F923">>

GlyphRank(glyph) == IndexOf(GlyphsAscending, glyph)

\* a.localeCompare(b): negative, zero or positive
LocaleCompare(a, b) == GlyphRank(a) - GlyphRank(b)

\* the comparator handed to result.sort
Compare(a, b) ==
    IF Truthy(a.weight) /\ Truthy(b.weight)
    THEN b.weight - a.weight
    ELSE IF Truthy(a.weight)
         THEN 0 - 1
         ELSE IF Truthy(b.weight)
              THEN 1
              ELSE LocaleCompare(a.emoji, b.emoji)

\* Array.prototype.sort is stable: x, which came after every element of the
\* sorted arr, goes before the first element that compares greater than it.
RECURSIVE InsertSorted(_, _)
InsertSorted(arr, x) ==
    IF arr = <<>>
    THEN <<x>>
    ELSE IF Compare(Head(arr), x) <= 0
         THEN <<Head(arr)>> \o InsertSorted(Tail(arr), x)
         ELSE <<x>> \o arr

RECURSIVE SortFrom(_, _, _)
SortFrom(sorted, arr, k) ==
    IF k > Len(arr) \/ Len(sorted) # k - 1
    THEN sorted
    ELSE SortFrom(InsertSorted(sorted, arr[k]), arr, k + 1)

\* result.sort((a, b) => ...)
Sort(arr) == SortFrom(<<>>, arr, 1)

\* the most entries handed to the view
MaxDisplayed == 32

\* Faulty variant of Slice: the last entries are kept instead of the first.
SliceFromEnd(arr, end) ==
    IF Len(arr) <= end THEN arr ELSE SubSeq(arr, Len(arr) - end + 1, Len(arr))

\* arr.slice(0, end)
Slice(arr, end) == IF Len(arr) <= end THEN arr ELSE SubSeq(arr, 1, end)

\* Catalogs of records of one shape (name "Ab", category "b", subcategory
\* "Ab", no keyword), which a query weighs alike unless it is their name; the
\* glyphs are given.
TwinCatalog(glyphs) ==
    [category |-> << <<"a">>, <<"b">> >>,
     subCategory |-> << << <<"A">> >>, << <<"A", "b">> >> >>,
     keywords |-> << <<"A">> >>,
     emojis |-> [k \in 1..Len(glyphs) |->
                    [emoji |-> glyphs[k], name |-> <<"A", "b">>, category |-> 1,
                     subCategory |-> 0, keywords |-> <<>>, image |-> null]]]

TwinCatalogs == {TwinCatalog(<<g0, g1>>) : g0 \in GlyphPool, g1 \in GlyphPool}

\* a catalog of more records than the view is handed
ManyCatalog == TwinCatalog([k \in 1..(MaxDisplayed + 2) |-> "U+1F602"])

\* what the user types into the search bar
SearchTexts ==
    {<<>>, <<" ">>, <<"b">>, <<"b", " ">>, <<" ", "a", "b">>, <<"A", "b">>,
     <<"a">>, Constructor}

\* useEmojiSearcher's useMemo: no searcher until both promises gave their data
SearcherIsNull == emojiListData = None \/ emojiTrieCache = None

\* Grid's isLoading
IsLoading == SearcherIsNull

\* whether Grid.EmptyView is rendered
EmptyViewShown == SearcherIsNull

\* commonEmoji: searcher?.getCommon() || []
CommonEmoji == IF SearcherIsNull THEN <<>> ELSE GetCommonResult(emojiList)

\* display: filteredEmoji || commonEmoji (an array, empty or not, is truthy)
Display == IF filteredEmoji # None THEN The(filteredEmoji) ELSE CommonEmoji

\* The component with its searcher loaded (constructed from the catalog and
\* the trie snapshot), no change of the search bar yet.
InitUI ==
    \E list \in TwinCatalogs \cup {ManyCatalog} :
        /\ SearcherBuilt(list, Some(Snapshot(list)))
        /\ Mounted(Some(list), Some(Snapshot(list)))

\* the catalog of no record, which the fields hold while there is no searcher
NoCatalog == [category |-> <<>>, subCategory |-> <<>>, keywords |-> <<>>, emojis |-> <<>>]

\* The component as first rendered: neither promise has given its data,
\* there is no searcher.
InitView ==
    /\ emojiList = NoCatalog
    /\ cachedJson = None
    /\ nameMap = EmptyMap
    /\ nameTrieRoot = EmptyTrie
    /\ keywordTrieRoot = EmptyTrie
    /\ categoryTrieRoot = EmptyTrie
    /\ call = "none"
    /\ input = <<>>
    /\ resultVotes = EmptyMap
    /\ result = <<>>
    /\ thrown = "none"
    /\ first = None
    /\ Mounted(None, None)

\* useEmojiSearcher's useMemo, run when one of the promises has given its
\* data: null unless both have, else new EmojiSearcher(emojiList, emojiTrieCache)
UseMemo(listData, cacheData) ==
    IF listData = None \/ cacheData = None
    THEN UNCHANGED searcherVars
    ELSE LET built == Construct(The(listData), cacheData)
         IN  /\ emojiList' = The(listData)
             /\ cachedJson' = cacheData
             /\ nameMap' = built.nameMap
             /\ nameTrieRoot' = built.nameTrieRoot
             /\ keywordTrieRoot' = built.keywordTrieRoot
             /\ categoryTrieRoot' = built.categoryTrieRoot

\* the two files the component reads are a catalog and the snapshot of the
\* searcher built from it
SameAssets(listData, cacheData) ==
    IF listData = None \/ cacheData = None
    THEN TRUE
    ELSE The(cacheData) = Snapshot(The(listData))

\* readReducedEmojiList's promise resolves
EmojiListRead(list) ==
    /\ emojiListData = None
    /\ SameAssets(Some(list), emojiTrieCache)
    /\ emojiListData' = Some(list)
    /\ UseMemo(Some(list), emojiTrieCache)
    /\ UNCHANGED <<callVars, lastArgs, filteredEmoji, emojiTrieCache, searchText,
                   timerId, sinceInvoke, processed, shownFor>>

\* readEmojiTrieCache's promise resolves
EmojiTrieCacheRead(list) ==
    /\ emojiTrieCache = None
    /\ SameAssets(emojiListData, Some(Snapshot(list)))
    /\ emojiTrieCache' = Some(Snapshot(list))
    /\ UseMemo(emojiListData, Some(Snapshot(list)))
    /\ UNCHANGED <<callVars, lastArgs, filteredEmoji, emojiListData, searchText,
                   timerId, sinceInvoke, processed, shownFor>>

\* onChange without its first line
OnChangeUnguarded(v) ==
    /\ searchText' = v
    /\ lastArgs' = Some(v)
    /\ timerId' = IF timerId = undefined THEN Wait ELSE timerId
    /\ UNCHANGED <<searcherVars, callVars, filteredEmoji, emojiListData, emojiTrieCache,
                   sinceInvoke, processed, shownFor>>

\* Grid.SearchBar onChange(v): nothing without a searcher; else the call of
\* the throttled function, which with leading: false does not run the
\* callback: v replaces the arguments of the pending invocation, and the
\* timer is started unless it runs.
OnChange(v) ==
    /\ searchText' = v
    /\ IF SearcherIsNull
       THEN UNCHANGED <<lastArgs, timerId>>
       ELSE /\ lastArgs' = Some(v)
            /\ timerId' = IF timerId = undefined THEN Wait ELSE timerId
    /\ UNCHANGED <<searcherVars, callVars, filteredEmoji, emojiListData, emojiTrieCache,
                   sinceInvoke, processed, shownFor>>

Min(a, b) == IF a < b THEN a ELSE b

\* the ms the clock advances in one step: not beyond the expiry of a timer
ClockStep == Min(Wait \div TicksPerWindow, IF timerId > 0 THEN timerId ELSE Wait)

\* time passes
Tick ==
    /\ timerId > 0 \/ sinceInvoke < Wait
    /\ timerId' = IF timerId > 0 THEN timerId - ClockStep ELSE timerId
    /\ sinceInvoke' = Min(Wait, sinceInvoke + ClockStep)
    /\ UNCHANGED <<searcherVars, callVars, lastArgs, filteredEmoji, emojiListData,
                   emojiTrieCache, searchText, processed, shownFor>>

\* The trailing edge of the throttle window: the timer has expired, and the
\* function handed to throttle runs on the latest arguments.
TrailingEdge ==
    /\ timerId = 0
    /\ timerId' = undefined
    /\ sinceInvoke' = 0
    /\ lastArgs' = None
    /\ processed' = lastArgs
    /\ LET trimmed == Trim(The(lastArgs))
       IN  IF trimmed = <<>>
           THEN /\ filteredEmoji' = None
                /\ shownFor' = lastArgs
                /\ UNCHANGED callVars
           ELSE /\ call' = "search"
                /\ input' = trimmed
                /\ first' = first
                /\ LET outcome == SearchOutcome(emojiList, Index, trimmed)
                   IN  /\ resultVotes' = outcome.votes
                       /\ thrown' = outcome.thrown
                       /\ IF outcome.thrown = "TypeError"
                          THEN /\ result' = <<>>
                               /\ filteredEmoji' = filteredEmoji
                               /\ shownFor' = shownFor
                          ELSE /\ result' = Sort(outcome.result)
                               /\ filteredEmoji' = Some(Slice(result', MaxDisplayed))
                               /\ shownFor' = lastArgs
    /\ UNCHANGED <<searcherVars, emojiListData, emojiTrieCache, searchText>>

AnyChange == \E v \in SearchTexts : OnChange(v)

NextUI ==
    \/ AnyChange
    \/ Tick
    \/ TrailingEdge

SpecUI == InitUI /\ [][NextUI]_vars

\* the catalogs the component may read
ViewCatalogs == {TwinCatalog(<<g0, g1>>) : g0 \in {"U+1F602"}, g1 \in GlyphPool}

AnyEmojiListRead == \E list \in ViewCatalogs : EmojiListRead(list)

AnyEmojiTrieCacheRead == \E list \in ViewCatalogs : EmojiTrieCacheRead(list)

NextView ==
    \/ AnyEmojiListRead
    \/ AnyEmojiTrieCacheRead
    \/ AnyChange
    \/ Tick
    \/ TrailingEdge

\* the step of an expired timer running its callback: TrailingEdge is enabled
\* exactly when timerId = 0, and it is the one action that takes such a step
TimerFires == timerId = 0 /\ timerId' = undefined

\* SpecView follows the component from its first render: the two files are
\* read in either order (or never), the user types at any time; time passes,
\* and a timer that has expired runs its callback.
SpecView ==
    /\ InitView
    /\ [][NextView]_vars
    /\ WF_vars(Tick)
    /\ WF_timerId(TimerFires)

-----------------------------------------------------------------------------
(* Vocabulary of the properties *)

\* p occurs in s as a contiguous substring
IsSubstring(p, s) ==
    \E k \in 0..(Len(s) - Len(p)) : SubSeq(s, k + 1, k + Len(p)) = p

\* a search call has returned
Searched == call = "search"

\* ... on a query that is empty after trimming
BlankQuery == Trim(input) = <<>>

\* ... on a query that is not
Queried == Searched /\ ~BlankQuery

Ids == EmojiIds(emojiList)

Name(i) == NameOf(emojiList, i)

KeywordIds == 0..(Len(emojiList.keywords) - 1)

Keyword(k) == At(emojiList.keywords, k)

References(i, k) == Includes(At(emojiList.emojis, i).keywords, k)

\* the record ids of the entries returned
Returned == {result[k].idx : k \in 1..Len(result)}

\* record i is returned with weight at least w
ReturnedWithAtLeast(i, w) ==
    \E k \in 1..Len(result) : result[k].idx = i /\ result[k].weight >= w

\* the weight search accumulated for record i
Accumulated(i) == IF i \in DOMAIN resultVotes THEN resultVotes[i] ELSE 0

\* the lowercased trimmed query
LowerQuery == ToLowerCase(Trim(input))

\* the three substring signals of record i for the query
PartialName(i) == IsSubstring(LowerQuery, ToLowerCase(Name(i)))

PartialKeyword(i) ==
    \E k \in KeywordIds :
        References(i, k) /\ IsSubstring(LowerQuery, ToLowerCase(Keyword(k)))

PartialCategory(i) ==
    \/ IsSubstring(LowerQuery, ToLowerCase(CategoryOf(emojiList, i)))
    \/ IsSubstring(LowerQuery, ToLowerCase(SubcategoryOf(emojiList, i)))

\* the two exact signals of record i for the string text (the query as
\* passed, or the query trimmed)
SameName(i, text) == Name(i) = text

HasKeyword(i, text) == \E k \in KeywordIds : References(i, k) /\ Keyword(k) = text

\* the exact signals as the exact-name table and indexOf decide them: record
\* i is the last record named text; record i references the first keyword
\* id whose string is text
LastNamed(i, text) == SameName(i, text) /\ \A j \in Ids : j > i => ~SameName(j, text)

HasFirstKeyword(i, text) ==
    \E k \in KeywordIds :
        /\ References(i, k)
        /\ Keyword(k) = text
        /\ \A j \in KeywordIds : j < k => Keyword(j) # text

Bit(b) == IF b THEN 1 ELSE 0

-----------------------------------------------------------------------------
(* C1: exact name match *)

\* C1 as claimed: after search(q) with q non-empty, every record whose
\* as-authored name equals q is returned with weight at least 5, also when
\* several records share that name.
C1_EveryRecordOfThatName ==
    (Searched /\ input # <<>>) =>
        \A i \in Ids : SameName(i, input) => ReturnedWithAtLeast(i, WeightExactName)

\* C1 amended: after search(q) with q non-empty after trimming, the record
\* with the highest id among those whose as-authored name equals q is
\* returned with weight at least 5.
C1_LastRecordOfThatName ==
    Queried =>
        \A i \in Ids : LastNamed(i, input) => ReturnedWithAtLeast(i, WeightExactName)

\* a search for a name that two records share
C1_Witness ==
    /\ Queried
    /\ \E i, j \in Ids : i < j /\ SameName(i, input) /\ LastNamed(j, input)

-----------------------------------------------------------------------------
(* C2: exact keyword match *)

\* C2 as claimed: after search(q), for every keyword id k whose string equals
\* q, every record that references k is returned with weight at least 4,
\* also when the string occurs under several keyword ids.
C2_EveryKeywordId ==
    Searched =>
        \A k \in KeywordIds : \A i \in Ids :
            (Keyword(k) = input /\ References(i, k))
                => ReturnedWithAtLeast(i, WeightExactKeyword)

\* a search for a keyword string that sits under two ids, one of which a
\* record references without referencing the first
C2_Witness ==
    /\ Searched
    /\ \E i \in Ids : HasKeyword(i, input) /\ ~HasFirstKeyword(i, input)

-----------------------------------------------------------------------------
(* C3: the weight is the sum of the signals *)

\* the sum the claim gives, the exact signals decided on the trimmed query
\* and the exact-name signal being that of the exact-name table
SumOfSignals(i) ==
    WeightExactName * Bit(LastNamed(i, Trim(input)))
    + WeightExactKeyword * Bit(HasKeyword(i, Trim(input)))
    + WeightPartialName * Bit(PartialName(i))
    + WeightPartialKeyword * Bit(PartialKeyword(i))
    + WeightPartialCategory * Bit(PartialCategory(i))

\* C3 as claimed: after search(q) with q non-empty after trimming, every
\* returned entry's weight is 5*[exact name] + 4*[exact keyword]
\* + 3*[name substring] + 2*[keyword substring] + 1*[category substring],
\* each signal counted once.
C3_WeightIsSumOfSignals ==
    Queried =>
        \A k \in 1..Len(result) : result[k].weight = SumOfSignals(result[k].idx)

-----------------------------------------------------------------------------
(* C4: the filter *)

\* C4: after search(q) with q non-empty after trimming, the records returned
\* are exactly those whose accumulated weight is greater than 3, each once
\* and with its accumulated weight.
C4_ReturnedIffAboveThree ==
    Queried =>
        /\ Returned = {i \in Ids : Accumulated(i) > 3}
        /\ \A k \in 1..Len(result) : result[k].weight = Accumulated(result[k].idx)

\* a search that leaves one record at exactly 3 and another at exactly 4
C4_Witness ==
    /\ Queried
    /\ \E i, j \in Ids : Accumulated(i) = 3 /\ Accumulated(j) = 4

-----------------------------------------------------------------------------
(* C5: combinations and exact matches *)

NumSignals(i) ==
    Bit(SameName(i, input)) + Bit(HasKeyword(i, input)) + Bit(PartialName(i))
    + Bit(PartialKeyword(i)) + Bit(PartialCategory(i))

-----------------------------------------------------------------------------
(* C6: name substring *)

\* C6 as claimed: after search(q) with q non-empty after trimming, every
\* record whose lowercased name contains the lowercased trimmed query is
\* returned.
C6_NameSubstringReturned ==
    Queried => \A i \in Ids : PartialName(i) => i \in Returned

\* C6 amended: such a record accumulates at least 3, and it is returned
\* exactly when it has another vote as well (an exact-match vote, or the
\* keyword- or category-substring signal).
C6_NameSubstringNeedsMore ==
    Queried =>
        \A i \in Ids :
            PartialName(i) =>
                /\ Accumulated(i) >= WeightPartialName
                /\ i \in Returned <=>
                       \/ LastNamed(i, input)
                       \/ HasFirstKeyword(i, input)
                       \/ PartialKeyword(i)
                       \/ PartialCategory(i)

\* a search whose query lies inside a name, not at its start, and meets no
\* other signal of that record
C6_Witness ==
    /\ Queried
    /\ \E i \in Ids :
        /\ PartialName(i)
        /\ ~IsSubstring(LowerQuery, SubSeq(ToLowerCase(Name(i)), 1, Len(LowerQuery)))
        /\ ~PartialKeyword(i) /\ ~PartialCategory(i)
        /\ i \notin Returned

-----------------------------------------------------------------------------
(* C7: a single substring match is suppressed; the party popper example *)

\* the entries of one record with one weight
OneEntry(i, w) ==
    /\ Len(result) = 1
    /\ result[1].idx = i
    /\ result[1].weight = w

\* C7: after search(q) with q non-empty after trimming, a record whose only
\* signal is one substring match is not returned; in the party popper
\* catalog "party popper" returns the record with weight 8, "celebration"
\* returns it with weight 6 and "part" returns nothing.
C7_SingleSubstringSuppressed ==
    /\ Queried =>
        \A i \in Ids :
            (NumSignals(i) = 1 /\ ~SameName(i, input) /\ ~HasKeyword(i, input))
                => i \notin Returned
    /\ (Searched /\ emojiList = PartyCatalog) =>
        /\ input = PartyPopper => OneEntry(0, 8)
        /\ input = Celebration => OneEntry(0, 6)
        /\ input = Part => result = <<>>

\* the search for "part" in the party popper catalog, the name substring
\* being the record's only signal
C7_Witness ==
    /\ Searched
    /\ emojiList = PartyCatalog
    /\ input = Part
    /\ NumSignals(0) = 1 /\ PartialName(0)
    /\ Accumulated(0) = 3

-----------------------------------------------------------------------------
(* C8: the exact signals and trimming *)

\* C8 as claimed: search(q) returns what search(trim(q)) returns, the same
\* records with the same weights.
C8_SameAsTrimmedQuery ==
    Searched => result = SearchResult(emojiList, Index, Trim(input))

\* a search for a name or keyword of the catalog with white space around it
C8_Witness ==
    /\ Queried
    /\ Trim(input) # input
    /\ \E i \in Ids : SameName(i, Trim(input)) \/ HasKeyword(i, Trim(input))

-----------------------------------------------------------------------------
(* C9: exact matching is case-sensitive, substring matching is not *)

\* the query is no name and no keyword of the catalog
NoExactMatch ==
    /\ \A i \in Ids : ~SameName(i, input)
    /\ \A k \in KeywordIds : Keyword(k) # input

DiffersOnlyInCase(text, other) ==
    ToLowerCase(text) = ToLowerCase(other) /\ text # other

\* C9: after search(q) with q no name and no keyword of the catalog, a record
\* whose name differs from q only in case accumulates the name-substring
\* weight 3 and no exact-name weight, and a record with a keyword that
\* differs from q only in case accumulates the keyword-substring weight 2 and
\* no exact-keyword weight: its weight is the sum of its substring signals.
C9_CaseSensitiveExactMatch ==
    (Queried /\ NoExactMatch) =>
        \A i \in Ids :
            /\ DiffersOnlyInCase(input, Name(i)) =>
                   /\ PartialName(i)
                   /\ Accumulated(i) =
                          WeightPartialName
                          + WeightPartialKeyword * Bit(PartialKeyword(i))
                          + WeightPartialCategory * Bit(PartialCategory(i))
            /\ (\E k \in KeywordIds :
                    References(i, k) /\ DiffersOnlyInCase(input, Keyword(k))) =>
                   /\ PartialKeyword(i)
                   /\ Accumulated(i) =
                          WeightPartialName * Bit(PartialName(i))
                          + WeightPartialKeyword
                          + WeightPartialCategory * Bit(PartialCategory(i))

\* a search whose query differs only in case from a record's name and from
\* one of its keywords
C9_Witness ==
    /\ Queried
    /\ NoExactMatch
    /\ \E i \in Ids :
        /\ DiffersOnlyInCase(input, Name(i))
        /\ \E k \in KeywordIds :
               References(i, k) /\ DiffersOnlyInCase(input, Keyword(k))

-----------------------------------------------------------------------------
(* C10: the empty query and getAll *)

\* one entry per record, in catalog order, without weight
ListsEveryRecord ==
    /\ Len(result) = NumEmojis(emojiList)
    /\ \A k \in 1..Len(result) :
        /\ result[k].idx = k - 1
        /\ result[k].name = Name(k - 1)
        /\ result[k].weight = undefined

\* C10: search(q) with q empty or white space only returns one weightless
\* entry per record in catalog order, the same array as getAll(); getAll()
\* always returns that.
C10_BlankQueryListsAll ==
    /\ (Searched /\ BlankQuery) =>
           ListsEveryRecord /\ result = GetAllResult(emojiList)
    /\ call = "getAll" => ListsEveryRecord

\* a search for white space in a catalog of two records
C10_Witness ==
    /\ Searched
    /\ input # <<>>
    /\ BlankQuery
    /\ Len(result) = 2

-----------------------------------------------------------------------------
(* C11: a searcher restored from a snapshot *)

\* the searcher was constructed from a snapshot
Restored == cachedJson # None

\* how search(text) ends on a searcher freshly built from the catalog
FreshOutcome(text) == SearchOutcome(emojiList, Construct(emojiList, None), text)

\* the searcher is as constructed: no call has been made on it
JustConstructed == call = "none"

\* C11: a searcher constructed from a catalog and the toJSON() snapshot of a
\* searcher freshly built from that catalog holds exactly the snapshot's
\* tries and exact-name table (nothing is rebuilt or altered), and search(q)
\* on it gives the same entries with the same weights, and the same
\* accumulated weights, as on the freshly built searcher.
C11_RestoredSearchesLikeFresh ==
    Restored =>
        /\ Index = The(cachedJson)
        /\ JustConstructed => Index = ToJSON(BuildTries(emojiList))
        /\ Searched =>
               [votes |-> resultVotes, thrown |-> thrown, result |-> result]
                   = FreshOutcome(input)

\* a search on a restored searcher that returns the record named by the
\* query and leaves another record out
C11_Witness ==
    /\ Restored
    /\ Queried
    /\ \E i \in Ids : LastNamed(i, input) /\ ReturnedWithAtLeast(i, WeightExactName)
    /\ \E i \in Ids : i \notin Returned

-----------------------------------------------------------------------------
(* C12: getCommon *)

\* the glyph of some record of the catalog
InCatalog(glyph) == \E i \in Ids : At(emojiList.emojis, i).emoji = glyph

Curated(glyph) == Includes(CommonEmojis, glyph)

\* C12: getCommon() returns one weightless entry, made from a record of that
\* glyph, for each curated glyph that is the glyph of some record, in the
\* order of the curated list, and nothing else: no entry for a curated glyph
\* absent from the catalog, no glyph outside the curated list, and never
\* more entries than the curated list has, which are 24.
C12_CommonInCuratedOrder ==
    call = "getCommon" =>
        /\ thrown = "none"
        /\ \A k \in 1..Len(result) :
               /\ Curated(result[k].emoji)
               /\ InCatalog(result[k].emoji)
               /\ result[k].weight = undefined
               /\ result[k].idx \in Ids
               /\ result[k] = IntoHumanReadable(emojiList, result[k].idx, undefined)
        /\ \A k \in 1..Len(CommonEmojis) :
               InCatalog(CommonEmojis[k]) =>
                   Cardinality({j \in 1..Len(result) :
                                    result[j].emoji = CommonEmojis[k]}) = 1
        /\ \A j, k \in 1..Len(result) :
               j < k => IndexOf(CommonEmojis, result[j].emoji)
                            < IndexOf(CommonEmojis, result[k].emoji)
        /\ Len(result) <= Len(CommonEmojis)
        /\ Len(CommonEmojis) = 24

\* getCommon() on a catalog that lists two curated glyphs against the
\* curated order, and on one with a glyph that is not curated
C12_Witness ==
    /\ call = "getCommon"
    /\ \/ /\ Len(result) = 2
          /\ result[1].idx = 1
          /\ result[2].idx = 0
       \/ /\ Len(result) = 1
          /\ \E i \in Ids : ~Curated(At(emojiList.emojis, i).emoji)

-----------------------------------------------------------------------------
(* C13: the ranking of the results by the caller *)

\* the handler ran a search, which returned, and sorted its results
Ranked == call = "search" /\ thrown = "none"

\* a may stand directly before b: by weight, or on equal weight by glyph
InRankOrder(a, b) ==
    \/ Truthy(a.weight) /\ Truthy(b.weight) /\ a.weight > b.weight
    \/ Truthy(a.weight) /\ ~Truthy(b.weight)
    \/ /\ a.weight = b.weight
       /\ GlyphRank(a.emoji) <= GlyphRank(b.emoji)

\* C13 as claimed: in the list the handler has sorted, any two adjacent
\* results a before b have weight(a) > weight(b) (or only a has a weight),
\* or they have equal weight and glyph(a) <= glyph(b).
C13_RankedByWeightThenGlyph ==
    Ranked =>
        \A k \in 1..(Len(result) - 1) : InRankOrder(result[k], result[k + 1])

-----------------------------------------------------------------------------
(* C14: search has no failure outcome *)

\* C14 as claimed: search(q) returns for every query q without raising an
\* error, and every key of resultVotes it materializes is a record id of
\* the catalog (an integer in 0..N-1).
C14_SearchNeverFails ==
    Searched =>
        /\ thrown = "none"
        /\ \A id \in Materialized(resultVotes) : id \in Ids

-----------------------------------------------------------------------------
(* C15: the tries index every substring *)

\* the lowercased strings buildTries inserts for record i into each trie
NameStrings(i) == {ToLowerCase(Name(i))}

KeywordStrings(i) == {ToLowerCase(Keyword(k)) : k \in {j \in KeywordIds : References(i, j)}}

CategoryStrings(i) ==
    {ToLowerCase(CategoryOf(emojiList, i)), ToLowerCase(SubcategoryOf(emojiList, i))}

\* the strings looked up: the non-empty queries of the catalog
Lookups == Queries(emojiList) \ {<<>>}

SetOf(arr) == {arr[k] : k \in 1..Len(arr)}

NoRepeat(arr) == \A j, k \in 1..Len(arr) : j # k => arr[j] # arr[k]

\* C15: in each of the three tries of a searcher as constructed and for every
\* non-empty string p, searchTrie(root, p) returns exactly the ids of the
\* records for which p is a contiguous substring of a lowercased string
\* inserted into that trie (the name; a keyword; the category or the
\* subcategory), each id once; so it returns [] when there is no such record.
C15_TriesIndexSubstrings ==
    JustConstructed => \A p \in Lookups :
        /\ LET found == SearchTrie(nameTrieRoot, p)
           IN  /\ SetOf(found) =
                      {i \in Ids : \E s \in NameStrings(i) : IsSubstring(p, s)}
               /\ NoRepeat(found)
        /\ LET found == SearchTrie(keywordTrieRoot, p)
           IN  /\ SetOf(found) =
                      {i \in Ids : \E s \in KeywordStrings(i) : IsSubstring(p, s)}
               /\ NoRepeat(found)
        /\ LET found == SearchTrie(categoryTrieRoot, p)
           IN  /\ SetOf(found) =
                      {i \in Ids : \E s \in CategoryStrings(i) : IsSubstring(p, s)}
               /\ NoRepeat(found)

\* a searcher of two records of category "b" / "Ab" (each inserts the node b
\* twice) whose names hold "b" at the end only
C15_Witness ==
    /\ SearchTrie(categoryTrieRoot, <<"b">>) = <<0, 1>>
    /\ SearchTrie(nameTrieRoot, <<"b">>) = <<0, 1>>
    /\ SearchTrie(nameTrieRoot, <<"b", "a">>) = <<>>
    /\ SearchTrie(keywordTrieRoot, <<"a">>) # <<>>

-----------------------------------------------------------------------------
(* C16: the build does not depend on the order of the insertions *)

\* the orders in which the records can be taken
RecordOrders ==
    {order \in [1..NumEmojis(emojiList) -> Ids] :
        \A j, k \in 1..NumEmojis(emojiList) : j # k => order[j] # order[k]}

\* buildTries' loop body applied to the records in the given order
RECURSIVE BuildInOrderFrom(_, _, _)
BuildInOrderFrom(s, order, k) ==
    IF k > Len(order) \/ <<>> \notin DOMAIN s.nameTrieRoot
    THEN s
    ELSE BuildInOrderFrom(BuildOne(emojiList, s, order[k]), order, k + 1)

BuildInOrder(order) ==
    BuildInOrderFrom([nameMap |-> EmptyMap, nameTrieRoot |-> EmptyTrie,
                      keywordTrieRoot |-> EmptyTrie, categoryTrieRoot |-> EmptyTrie],
                     order, 1)

\* the same node paths, and at every node the same set of ids
SameNodes(trie, other) ==
    /\ DOMAIN trie = DOMAIN other
    /\ \A node \in DOMAIN trie : SetOf(trie[node]) = SetOf(other[node])

\* C16: building again from the catalog gives the tries and the exact-name
\* table the searcher has when constructed; the three-pass build (all names, then
\* all keywords, then all categories) gives the same tries and the same
\* exact-name table as the single-pass build; and in whichever order the
\* records are inserted, the tries have the same node paths and the same set
\* of ids at every node.
C16_BuildIsOrderIndependent ==
    JustConstructed =>
        /\ Index = BuildTries(emojiList)
        /\ Index = BuildTriesThreePass(emojiList)
        /\ \A order \in RecordOrders :
               /\ SameNodes(nameTrieRoot, BuildInOrder(order).nameTrieRoot)
               /\ SameNodes(keywordTrieRoot, BuildInOrder(order).keywordTrieRoot)
               /\ SameNodes(categoryTrieRoot, BuildInOrder(order).categoryTrieRoot)

\* a searcher of two records that share nodes of the name trie and of the
\* keyword trie: inserting record 1 first gives other output arrays
C16_Witness ==
    /\ NumEmojis(emojiList) = 2
    /\ \E node \in DOMAIN nameTrieRoot : nameTrieRoot[node] = <<0, 1>>
    /\ \E node \in DOMAIN keywordTrieRoot : keywordTrieRoot[node] = <<0, 1>>
    /\ BuildInOrder(<<1, 0>>).nameTrieRoot # nameTrieRoot

-----------------------------------------------------------------------------
(* C17: the exact-name table *)

\* the searcher was built from the catalog, not restored
FreshlyBuilt == cachedJson = None

\* C17: after a fresh build the exact-name table has an entry for the name
\* of every record, as authored, and that entry is the highest id of the
\* records so named; it has no entry for a string that is not the name of a
\* record (not for the lowercased form of a name either, unless that is a
\* name).
C17_NameMapKeepsLastOfEachName ==
    FreshlyBuilt =>
        /\ \A i \in Ids :
               /\ Name(i) \in DOMAIN nameMap
               /\ SameName(nameMap[Name(i)], Name(i))
               /\ \A j \in Ids : SameName(j, Name(i)) => j <= nameMap[Name(i)]
        /\ \A key \in DOMAIN nameMap : \E i \in Ids : SameName(i, key)

\* a searcher built from two records named "Ab": the one entry is that of
\* record 1, under "Ab" and not under "ab"
C17_Witness ==
    /\ FreshlyBuilt
    /\ NumEmojis(emojiList) = 2
    /\ Name(0) = <<"A", "b">>
    /\ Name(1) = <<"A", "b">>
    /\ DOMAIN nameMap = {<<"A", "b">>}
    /\ nameMap[<<"A", "b">>] = 1

-----------------------------------------------------------------------------
(* C18: intoHumanReadable *)

\* the image descriptor has no field: it is null
IsNull(descriptor) == DOMAIN descriptor = {}

\* C18: intoHumanReadable(i, w) returns for every record id i of the catalog;
\* the entry has the record's glyph and name, the category string
\* category[c] and the subcategory string subCategory[c][s] of the record's
\* indices c and s, the keyword strings of the record's keyword ids in their
\* order, an image descriptor that is null exactly when the record has no
\* image variant and whose flags apple, google, twitter, facebook are
\* otherwise true exactly when the entry of the tuple is 1, and the weight w
\* (undefined when none is given).
C18_EntryShowsTheRecord ==
    /\ \A i \in Ids : ~IntoHumanReadableThrows(emojiList, i)
    /\ call = "intoHumanReadable" =>
           LET emoji == At(emojiList.emojis, input[1])
               entry == result[1]
           IN  /\ thrown = "none"
               /\ Len(result) = 1
               /\ entry.emoji = emoji.emoji
               /\ entry.name = emoji.name
               /\ entry.category = At(emojiList.category, emoji.category)
               /\ entry.subcategory =
                      At(At(emojiList.subCategory, emoji.category), emoji.subCategory)
               /\ Len(entry.keywords) = Len(emoji.keywords)
               /\ \A k \in 1..Len(emoji.keywords) :
                      entry.keywords[k] = At(emojiList.keywords, emoji.keywords[k])
               /\ IsNull(entry.image) <=> emoji.image = null
               /\ ~IsNull(entry.image) =>
                      /\ entry.image.apple <=> At(emoji.image, 0) = 1
                      /\ entry.image.google <=> At(emoji.image, 1) = 1
                      /\ entry.image.twitter <=> At(emoji.image, 2) = 1
                      /\ entry.image.facebook <=> At(emoji.image, 3) = 1
                      /\ entry.image.image = At(emoji.image, 4)
               /\ entry.weight = input[2]

\* intoHumanReadable(0, 5) on a record with two keywords, listed against the
\* order of the keyword table, and with the variants google and facebook
C18_Witness ==
    /\ call = "intoHumanReadable"
    /\ input = <<0, WeightExactName>>
    /\ result[1].keywords = << <<"b">>, <<"A">> >>
    /\ ~IsNull(result[1].image)
    /\ result[1].image.google
    /\ ~result[1].image.apple
    /\ result[1].subcategory = <<"A">>

-----------------------------------------------------------------------------
(* C19: the calls leave the searcher as it is *)

\* a search of the query of the first search
SearchedAgain == Searched /\ first # None /\ The(first).input = input

\* C19: no call of search, getAll, getCommon, intoHumanReadable or toJSON
\* changes the tries, the exact-name table or the catalog, and search(q)
\* gives what the first search(q) on the searcher gave, whichever calls were
\* made in between.
C19_CallsLeaveSearcherUnchanged ==
    /\ [][UNCHANGED <<emojiList, nameTrieRoot, keywordTrieRoot, categoryTrieRoot,
                      nameMap>>]_vars
    /\ [](SearchedAgain =>
              /\ result = The(first).result
              /\ thrown = The(first).thrown)
    /\ [](Index = BuildTries(emojiList))

\* a search that returns a record, two or more calls after the first search
\* of the same query
C19_Witness ==
    /\ SearchedAgain
    /\ The(first).later >= 2
    /\ result # <<>>
    /\ \E k \in 1..Len(result) : result[k].weight > WeightExactName

-----------------------------------------------------------------------------
(* C20: the view gets the first 32 results *)

\* the list handed to the view by the last run of the handler is that of a
\* search (the handler searched, the search returned, and no later run has
\* set the list to null)
Displayed == Ranked /\ filteredEmoji # None

\* C20: search returns an entry for every record whose weight passes the
\* filter, however many they are; the list the handler hands to the view
\* after a search has at most 32 entries and is the sorted array of results
\* up to its 32nd entry (the whole array when it has no more).
C20_ViewGetsFirstResults ==
    Displayed =>
        LET shown == The(filteredEmoji)
        IN  /\ Returned = Materialized(resultVotes)
            /\ Len(result) = Cardinality(Materialized(resultVotes))
            /\ Len(shown) <= MaxDisplayed
            /\ Len(shown) = IF Len(result) < MaxDisplayed
                            THEN Len(result)
                            ELSE MaxDisplayed
            /\ \A k \in 1..Len(shown) : shown[k] = result[k]
            /\ MaxDisplayed = 32

\* a search that returns 34 entries, the record named by the query first in
\* the sorted array: the view gets 32 of them
C20_Witness ==
    /\ Displayed
    /\ Len(result) = MaxDisplayed + 2
    /\ Len(The(filteredEmoji)) = MaxDisplayed
    /\ result[1].idx = MaxDisplayed + 1
    /\ result[1].weight > result[2].weight
    /\ The(filteredEmoji)[1].idx = MaxDisplayed + 1

-----------------------------------------------------------------------------
(* The search bar, the throttle and the loading of the searcher *)

\* the step runs the callback handed to throttle: the pending arguments are taken
CallbackRuns == lastArgs # None /\ lastArgs' = None

\* the step is a change of the search bar
BarChanges == searchText' # searchText

\* the text v is the latest typed and awaits the trailing edge
Pending(v) == lastArgs = Some(v) /\ searchText = v

\* the filtered list was last set from the text v, and nothing is pending
SetFrom(v) == lastArgs = None /\ shownFor = Some(v)

\* C21: with the searcher loaded, the callback of throttledSearch runs at most
\* once per window of Wait ms and never in the step of the change itself; a
\* text that awaits the trailing edge is eventually what the filtered list
\* is set from, unless a newer text is typed; and whenever the filtered
\* list is set, it is set from the latest text.
C21_LatestInputWins ==
    /\ [][CallbackRuns => sinceInvoke = Wait]_vars
    /\ [][BarChanges => ~CallbackRuns /\ UNCHANGED <<callVars, filteredEmoji, processed, shownFor>>]_vars
    /\ \A v \in SearchTexts : Pending(v) ~> (searchText # v \/ SetFrom(v))
    /\ [][shownFor' # shownFor => shownFor' = Some(searchText)]_vars

\* the input the callback last ran on is null, empty or white space only
ProcessedBlank == processed # None /\ Trim(The(processed)) = <<>>

\* the input the callback last ran on is a text with more than white space
ProcessedText == processed # None /\ Trim(The(processed)) # <<>>

\* C22: when the input last processed is null, empty or white space only,
\* filteredEmoji is null and the view displays getCommon(); when it is any
\* other text, the view displays what search returned for it (sorted, the
\* first MaxDisplayed), not the curated set it falls back to.
C22_FallbackToCurated ==
    /\ ProcessedBlank =>
           filteredEmoji = None /\ Display = GetCommonResult(emojiList)
    /\ ProcessedText =>
           /\ filteredEmoji # None
           /\ thrown = "none"
           /\ Display = Slice(result, MaxDisplayed)

\* the fields hold a searcher
HasSearcher == emojiList # NoCatalog

\* nothing awaits the trailing edge and no timer runs
NothingScheduled == lastArgs = None /\ timerId = undefined

\* no search has run and the filtered list was never set
NothingSearched ==
    call = "none" /\ processed = None /\ shownFor = None /\ filteredEmoji = None

\* C23: there is a searcher only once both the catalog and the snapshot are
\* read; the loading state and the empty view are shown exactly while there
\* is none; until then nothing is scheduled or searched whatever is typed,
\* a change of the bar leaves the schedule, the filtered list and the
\* searches alone, the step that brings the searcher schedules and runs
\* nothing, and with nothing pending no step runs a search or sets the list.
C23_LoadingGate ==
    /\ [](HasSearcher <=> (emojiListData # None /\ emojiTrieCache # None))
    /\ [](IsLoading <=> ~HasSearcher)
    /\ [](EmptyViewShown <=> ~HasSearcher)
    /\ [](~HasSearcher => NothingScheduled /\ NothingSearched)
    /\ [][~HasSearcher /\ BarChanges =>
              UNCHANGED <<lastArgs, timerId, filteredEmoji, callVars, processed, shownFor>>]_vars
    /\ [][~HasSearcher /\ HasSearcher' =>
              NothingScheduled' /\ NothingSearched']_vars
    /\ [][lastArgs = None /\ lastArgs' = None =>
              UNCHANGED <<filteredEmoji, callVars, processed, shownFor>>]_vars

\* the searcher has come after a text was typed, and the text was not searched
C23_Witness ==
    HasSearcher /\ searchText # <<>> /\ NothingScheduled /\ NothingSearched

-----------------------------------------------------------------------------
(* C24: the shape of the list search returns *)

\* search returned its list for a query that is not empty after trimming
ReturnedList == Queried /\ thrown = "none"

=============================================================================
